---------------------------- MODULE Spec2Model ----------------------------
(***************************************************************************)
(* Model of the reviewer-assignment service (internal/service, with the    *)
(* handlers that call it, the PostgresStore it calls and the schema the    *)
(* store runs against).                                                    *)
(*                                                                         *)
(* The durable state is the four tables of the schema.  Identifiers, which *)
(* are strings in the code, are small integers here.  The columns          *)
(* created_at (teams, users, pull_requests) and assigned_at (pr_reviewers) *)
(* are written once and never read by any decision of the service; they    *)
(* are left out.  merged_at is kept, with the precision of its column.     *)
(*                                                                         *)
(* echo serves every request in a goroutine of its own, and the service    *)
(* uses no transaction and no lock: a request is a sequence of calls of    *)
(* the store, each a round trip to the database, and the calls of          *)
(* concurrent requests interleave.  Every action below is one such step    *)
(* of one goroutine: the handler binding its request, one call of the      *)
(* store with the code up to the next call, or the response being          *)
(* written.                                                                *)
(*                                                                         *)
(* Spec runs every endpoint, from the empty store, on a small set of       *)
(* requests.  SpecCreate, SpecConc and SpecUpsert run two or three         *)
(* endpoints on wider requests, from a store that earlier requests have    *)
(* left.  SpecHttp is Spec with calls of the store that fail.              *)
(*                                                                         *)
(* serial and pre are history variables: no action reads them.             *)
(*                                                                         *)
(* Definitions whose name extends the name of the definition that follows  *)
(* them (SelectReviewersTakeOne before SelectReviewers) are faulty variants  *)
(* of it, used to test that the properties depend on the definition.       *)
(***************************************************************************)
EXTENDS Integers, Sequences, FiniteSets, TLC

\* ------------------------------------------------------------ bounds
MaxUsers == 4
MaxTeams == 2
MaxPRs == 2
MaxName == 1
MaxInstant == 1
\* SpecUpsert: users
MaxUpsertUsers == 2

UserIds == 1..MaxUsers
TeamNames == 1..MaxTeams
PRIds == 1..MaxPRs
UpsertUserIds == 1..MaxUpsertUsers
\* usernames and pull request names
Names == 1..MaxName
\* the request goroutines
Procs == {1, 2}

\* ------------------------------------------------------------ errors
ErrTeamExists == "ErrTeamExists"
ErrPRExists == "ErrPRExists"
ErrPRMerged == "ErrPRMerged"
ErrNotAssigned == "ErrNotAssigned"
ErrNoCandidate == "ErrNoCandidate"
ErrNotFound == "ErrNotFound"
\* a nil error
Ok == "nil"
\* an error of the database driver, returned as it is
ErrStore == "pq error"
\* an error returned by ctx.Bind
ErrBind == "bind error"
\* the call did not return: runtime panic (nil pointer dereference)
Panic == "panic"

PRStatusOpen == "OPEN"
PRStatusMerged == "MERGED"

\* ------------------------------------------------------------ time
\* time.Now() has nanosecond resolution; a TIMESTAMP column keeps microseconds.
NanosPerMicro == 1000

\* The instants time.Now() is drawn from: whole microseconds, and one
\* nanosecond past each.
Instants == UNION { {m * NanosPerMicro, m * NanosPerMicro + 1} : m \in 1..MaxInstant }

\* What a TIMESTAMP column holds after a time.Time was written to it, and so
\* what a later SELECT scans back: the value rounded to the microsecond.
StoreTimestamp(t) == ((t + (NanosPerMicro \div 2)) \div NanosPerMicro) * NanosPerMicro

\* ------------------------------------------------------------ state
VARIABLES
    teams,      \* table teams: the set of names
    users,      \* table users: user_id -> [username, is_active, team_name]
    prs,        \* table pull_requests: id -> [name, author_id, status, merged_at]
    reviewers,  \* table pr_reviewers: set of <<pull_request_id, user_id>>
    pc,         \* each goroutine's position: idle, the store call it makes next, return
    loc,        \* each goroutine's request and local variables
    serial,     \* history: no step so far was taken while another request was in flight
    pre         \* history, kept while serial: the store when each request began

store == <<teams, users, prs, reviewers>>
vars == <<teams, users, prs, reviewers, pc, loc, serial, pre>>

\* An optional value (a nil-able pointer, a NULL-able column) is a set of at
\* most one element.
Nil == {}
Some(x) == {x}

\* store.User and store.PullRequest as the service holds them in memory
User(id, row) == [user_id |-> id, username |-> row.username,
                  is_active |-> row.is_active, team_name |-> row.team_name]
PullRequest(id, row) == [pull_request_id |-> id, name |-> row.name,
                         author_id |-> row.author_id, status |-> row.status,
                         merged_at |-> row.merged_at]

\* ------------------------------------------------------------ store reads
\* SELECT ... FROM teams WHERE name = $1
GetTeam(ts, name) == IF name \in ts THEN Some(name) ELSE Nil

\* SELECT ... FROM users WHERE team_name = $1; the ids of the rows
GetTeamMembers(us, teamName) == { u \in DOMAIN us : us[u].team_name = teamName }

\* SELECT ... FROM users WHERE user_id = $1; (nil, nil) when there is no row
GetUser(us, userID) ==
    IF userID \in DOMAIN us THEN Some(User(userID, us[userID])) ELSE Nil

\* SELECT ... FROM users WHERE team_name = $1 AND is_active = true AND user_id != $2
\* (the service always passes excludeUserID); the ids of the rows.
GetActiveTeamMembersNoActiveFilter(us, teamName, excludeUserID) ==
    { u \in DOMAIN us : us[u].team_name = teamName /\ u # excludeUserID }
GetActiveTeamMembersNoExclude(us, teamName, excludeUserID) ==
    { u \in DOMAIN us : us[u].team_name = teamName /\ us[u].is_active }
GetActiveTeamMembers(us, teamName, excludeUserID) ==
    { u \in DOMAIN us :
        us[u].team_name = teamName /\ us[u].is_active /\ u # excludeUserID }

\* SELECT ... FROM pull_requests WHERE pull_request_id = $1; (nil, nil) when no row
GetPR(ps, prID) ==
    IF prID \in DOMAIN ps THEN Some(PullRequest(prID, ps[prID])) ELSE Nil

\* SELECT u.* FROM users u JOIN pr_reviewers pr ... WHERE pr.pull_request_id = $1
GetPRReviewers(us, rs, prID) ==
    { u \in DOMAIN us : <<prID, u>> \in rs }

\* SELECT p.* FROM pull_requests p JOIN pr_reviewers pr ... WHERE pr.user_id = $1
GetUserAssignedPRs(ps, rs, userID) ==
    { p \in DOMAIN ps : <<p, userID>> \in rs }

\* ------------------------------------------------------------ store writes
\* INSERT INTO teams
CreateTeam(ts, name) == ts \cup {name}
\* name VARCHAR(100) PRIMARY KEY: the insert of a name that exists fails
CreateTeamConflicts(ts, name) == name \in ts

\* INSERT INTO users ... ON CONFLICT (user_id) DO UPDATE SET username, is_active, team_name
CreateOrUpdateUser(us, user) ==
    [u \in DOMAIN us \cup {user.user_id} |->
        IF u = user.user_id
        THEN [username |-> user.username, is_active |-> user.is_active,
              team_name |-> user.team_name]
        ELSE us[u]]

\* UPDATE users SET username, is_active, team_name WHERE user_id = $4
UpdateUser(us, user) ==
    [u \in DOMAIN us |->
        IF u = user.user_id
        THEN [username |-> user.username, is_active |-> user.is_active,
              team_name |-> user.team_name]
        ELSE us[u]]

\* INSERT INTO pull_requests (id, name, author_id, status, created_at):
\* merged_at is not in the column list and stays NULL.
StoreCreatePRAsMerged(ps, pr) ==
    [p \in DOMAIN ps \cup {pr.pull_request_id} |->
        IF p = pr.pull_request_id
        THEN [name |-> pr.name, author_id |-> pr.author_id,
              status |-> PRStatusMerged, merged_at |-> Nil]
        ELSE ps[p]]
StoreCreatePR(ps, pr) ==
    [p \in DOMAIN ps \cup {pr.pull_request_id} |->
        IF p = pr.pull_request_id
        THEN [name |-> pr.name, author_id |-> pr.author_id,
              status |-> pr.status, merged_at |-> Nil]
        ELSE ps[p]]

\* UPDATE pull_requests SET pull_request_name, status, merged_at WHERE id = $4
UpdatePR(ps, pr) ==
    [p \in DOMAIN ps |->
        IF p = pr.pull_request_id
        THEN [ps[p] EXCEPT !.name = pr.name, !.status = pr.status,
                           !.merged_at = { StoreTimestamp(t) : t \in pr.merged_at }]
        ELSE ps[p]]

\* INSERT INTO pr_reviewers (pull_request_id, user_id, assigned_at)
AssignReviewer(rs, prID, userID) == rs \cup {<<prID, userID>>}
\* PRIMARY KEY (pull_request_id, user_id): the insert of a row that exists fails
AssignReviewerConflicts(rs, prID, userID) == <<prID, userID>> \in rs

\* pull_request_id VARCHAR(100) PRIMARY KEY: the insert of an id that exists fails
StoreCreatePRConflicts(ps, prID) == prID \in DOMAIN ps

\* DELETE FROM pr_reviewers WHERE pull_request_id = $1 AND user_id = $2
RemoveReviewerOfOtherUsers(rs, prID, userID) ==
    { e \in rs : e[1] # prID \/ e[2] = userID }
RemoveReviewer(rs, prID, userID) == rs \ {<<prID, userID>>}


\* ------------------------------------------------------------ service helpers
\* func min(a, b int) int
Min(a, b) == IF a < b THEN a ELSE b

\* rand.Shuffle of a copy of activeMembers, then shuffled[:count]: every
\* choice of count distinct members is a possible outcome.
ShufflePrefix(activeMembers, count) ==
    { R \in SUBSET activeMembers : Cardinality(R) = count }

\* CreatePR's selection: nothing for an empty pool, else min(2, len) of the shuffle
SelectReviewersTakeThree(activeMembers) ==
    IF Cardinality(activeMembers) > 0
    THEN ShufflePrefix(activeMembers, Min(3, Cardinality(activeMembers)))
    ELSE { {} }
SelectReviewersTakeOne(activeMembers) ==
    IF Cardinality(activeMembers) > 0
    THEN ShufflePrefix(activeMembers, Min(1, Cardinality(activeMembers)))
    ELSE { {} }
SelectReviewers(activeMembers) ==
    IF Cardinality(activeMembers) > 0
    THEN ShufflePrefix(activeMembers, Min(2, Cardinality(activeMembers)))
    ELSE { {} }

\* for _, reviewer := range reviewers { AssignReviewer(prID, reviewer.UserID) }
AssignReviewers(rs, prID, chosen) == rs \cup { <<prID, u>> : u \in chosen }

\* ReassignReviewer's filter over activeMembers: not a current reviewer, not old
AvailableMembersKeepCurrent(activeMembers, currentReviewers, oldUserID) ==
    { m \in activeMembers : m # oldUserID }
AvailableMembers(activeMembers, currentReviewers, oldUserID) ==
    { m \in activeMembers : m \notin currentReviewers /\ m # oldUserID }

\* for _, member := range members { CreateOrUpdateUser(User{..., TeamName: teamName}) }
RECURSIVE UpsertMembers(_, _, _)
UpsertMembers(us, teamName, members) ==
    IF members = << >> THEN us
    ELSE UpsertMembers(
            CreateOrUpdateUser(us, [user_id |-> Head(members).user_id,
                                    username |-> Head(members).username,
                                    is_active |-> Head(members).is_active,
                                    team_name |-> teamName]),
            teamName, Tail(members))

\* ------------------------------------------------------------ inputs
\* The member lists a request carries (service.TeamMember: user_id, username,
\* is_active): here the lists of at most MaxUsers members in ascending order
\* of user id.
RECURSIVE Ascending(_)
Ascending(S) ==
    IF S = {} THEN << >>
    ELSE LET m == CHOOSE x \in S : \A y \in S : x <= y
         IN <<m>> \o Ascending(S \ {m})
MemberLists ==
    UNION { { [i \in 1..Cardinality(S) |->
                 [user_id |-> Ascending(S)[i],
                  username |-> f[Ascending(S)[i]][1],
                  is_active |-> f[Ascending(S)[i]][2]]]
              : f \in [S -> Names \X BOOLEAN] }
            : S \in SUBSET UserIds }

\* a request body that ctx.Bind refuses
Unbound == [valid |-> FALSE]

\* ------------------------------------------------------------ goroutines
Idle == [p \in Procs |-> "idle"]
\* what every request holds: the operation of the service it asks for, the
\* error it ends with, and the reviewers returned beside a nil error
NoLocals == [p \in Procs |-> [op |-> "none", err |-> Ok, revs |-> {}]]
\* the locals of a request whose body did not bind: the service is not called
BindLocals(op) == [op |-> op, err |-> ErrBind, revs |-> {}]

NoStore == << >>
NoPre == [p \in Procs |-> NoStore]

\* The state after construction: empty tables, no request in flight.
Init ==
    /\ teams = {}
    /\ users = << >>
    /\ prs = << >>
    /\ reviewers = {}
    /\ pc = Idle
    /\ loc = NoLocals
    /\ serial = TRUE
    /\ pre = NoPre

\* No other request is between its first step and its return.
Quiet(g) == \A h \in Procs \ {g} : pc[h] \in {"idle", "return"}

\* The history variables at a step of goroutine g.
Track(g) ==
    /\ serial' = (serial /\ Quiet(g))
    /\ pre' = IF serial /\ Quiet(g)
              THEN (IF pc[g] = "idle" THEN [pre EXCEPT ![g] = store] ELSE pre)
              ELSE NoPre

\* The goroutine returns to its handler with err and revs set.
Return(g, err, revs) ==
    /\ pc' = [pc EXCEPT ![g] = "return"]
    /\ loc' = [loc EXCEPT ![g].err = err, ![g].revs = revs]

\* The goroutine goes on to its next call of the store.
Goto(g, label) == pc' = [pc EXCEPT ![g] = label]

\* The handler writes the response; the goroutine ends.
Finish(g) ==
    /\ pc[g] = "return"
    /\ pc' = [pc EXCEPT ![g] = "idle"]
    /\ loc' = [loc EXCEPT ![g] = NoLocals[g]]
    /\ pre' = [pre EXCEPT ![g] = NoStore]
    /\ UNCHANGED <<teams, users, prs, reviewers, serial>>

\* ------------------------------------------------------------ PostTeamAdd
\* the locals of PostTeamAdd and Service.CreateOrUpdateTeam: the arguments,
\* the members still to upsert, the team the service returned, the members
\* Service.GetTeam returned
TeamLocals(teamName, members) ==
    [op |-> "CreateOrUpdateTeam", teamName |-> teamName, members |-> members,
     pending |-> members, team |-> Nil, teamMembers |-> {}, err |-> Ok, revs |-> {}]

\* Handler.PostTeamAdd, lines 392-404: Bind, the members copied
PostTeamAdd(g, req) ==
    /\ pc[g] = "idle"
    /\ IF req.valid
       THEN /\ Goto(g, "Team_GetTeam")
            /\ loc' = [loc EXCEPT ![g] = TeamLocals(req.team_name, req.members)]
       ELSE /\ Goto(g, "return")
            /\ loc' = [loc EXCEPT ![g] = BindLocals("CreateOrUpdateTeam")]
    /\ Track(g)
    /\ UNCHANGED <<teams, users, prs, reviewers>>

\* Service.CreateOrUpdateTeam, lines 42-45: GetTeam, the existence check
Team_GetTeamIgnoresExisting(g) ==
    /\ pc[g] = "Team_GetTeam"
    /\ Goto(g, "Team_CreateTeam")
    /\ Track(g)
    /\ UNCHANGED <<teams, users, prs, reviewers, loc>>
Team_GetTeam(g) ==
    /\ pc[g] = "Team_GetTeam"
    /\ IF GetTeam(teams, loc[g].teamName) # Nil
       THEN Return(g, ErrTeamExists, {})
       ELSE Goto(g, "Team_CreateTeam") /\ UNCHANGED loc
    /\ Track(g)
    /\ UNCHANGED <<teams, users, prs, reviewers>>

\* lines 47-50: CreateTeam; the error of a refused insert is returned.  With
\* no member to upsert the service returns the team (line 64) and the handler
\* goes on to Service.GetTeam.
Team_CreateTeam(g) ==
    /\ pc[g] = "Team_CreateTeam"
    /\ IF CreateTeamConflicts(teams, loc[g].teamName)
       THEN /\ Return(g, ErrStore, {})
            /\ UNCHANGED teams
       ELSE /\ teams' = CreateTeam(teams, loc[g].teamName)
            /\ IF loc[g].pending = << >>
               THEN /\ Goto(g, "GetTeam_GetTeam")
                    /\ loc' = [loc EXCEPT ![g].team = Some(loc[g].teamName)]
               ELSE /\ Goto(g, "Team_CreateOrUpdateUser")
                    /\ UNCHANGED loc
    /\ Track(g)
    /\ UNCHANGED <<users, prs, reviewers>>

\* lines 52-64: one turn of the loop over members; after the last one the
\* service returns the team and the handler goes on to Service.GetTeam
Team_CreateOrUpdateUser(g) ==
    /\ pc[g] = "Team_CreateOrUpdateUser"
    /\ LET member == Head(loc[g].pending) IN
        /\ users' = CreateOrUpdateUser(users,
                        [user_id |-> member.user_id, username |-> member.username,
                         is_active |-> member.is_active,
                         team_name |-> loc[g].teamName])
        /\ IF Tail(loc[g].pending) = << >>
           THEN /\ Goto(g, "GetTeam_GetTeam")
                /\ loc' = [loc EXCEPT ![g].pending = << >>,
                                      ![g].team = Some(loc[g].teamName)]
           ELSE /\ UNCHANGED pc
                /\ loc' = [loc EXCEPT ![g].pending = Tail(@)]
    /\ Track(g)
    /\ UNCHANGED <<teams, prs, reviewers>>

\* ------------------------------------------------------------ GetTeamGet
\* the locals of GetTeamGet and Service.GetTeam
GetTeamLocals(teamName) ==
    [op |-> "GetTeam", teamName |-> teamName, teamMembers |-> {},
     err |-> Ok, revs |-> {}]

\* Handler.GetTeamGet, line 439: the call of Service.GetTeam
GetTeamGet(g, teamName) ==
    /\ pc[g] = "idle"
    /\ Goto(g, "GetTeam_GetTeam")
    /\ loc' = [loc EXCEPT ![g] = GetTeamLocals(teamName)]
    /\ Track(g)
    /\ UNCHANGED <<teams, users, prs, reviewers>>

\* Service.GetTeam, lines 68-74: GetTeam, the nil check (called by GetTeamGet
\* and, after Service.CreateOrUpdateTeam, by PostTeamAdd at line 414)
GetTeam_GetTeam(g) ==
    /\ pc[g] = "GetTeam_GetTeam"
    /\ IF GetTeam(teams, loc[g].teamName) = Nil
       THEN Return(g, ErrNotFound, {})
       ELSE Goto(g, "GetTeam_GetTeamMembers") /\ UNCHANGED loc
    /\ Track(g)
    /\ UNCHANGED <<teams, users, prs, reviewers>>

\* lines 76-81: GetTeamMembers, and the result
GetTeam_GetTeamMembers(g) ==
    /\ pc[g] = "GetTeam_GetTeamMembers"
    /\ Goto(g, "return")
    /\ loc' = [loc EXCEPT ![g].teamMembers = GetTeamMembers(users, loc[g].teamName)]
    /\ Track(g)
    /\ UNCHANGED <<teams, users, prs, reviewers>>

\* ------------------------------------------------------------ PostUsersSetIsActive
\* the locals of Service.SetUserActive: its arguments and user
SetActiveLocals(userID, isActive) ==
    [op |-> "SetUserActive", userID |-> userID, isActive |-> isActive,
     user |-> Nil, err |-> Ok, revs |-> {}]

\* Handler.PostUsersSetIsActive, lines 484-487: Bind
PostUsersSetIsActive(g, req) ==
    /\ pc[g] = "idle"
    /\ IF req.valid
       THEN /\ Goto(g, "SetActive_GetUser")
            /\ loc' = [loc EXCEPT ![g] = SetActiveLocals(req.user_id, req.is_active)]
       ELSE /\ Goto(g, "return")
            /\ loc' = [loc EXCEPT ![g] = BindLocals("SetUserActive")]
    /\ Track(g)
    /\ UNCHANGED <<teams, users, prs, reviewers>>

\* Service.SetUserActive, lines 85-90: GetUser; user.IsActive = isActive,
\* which panics on the nil user of a missing row
SetActive_GetUser(g) ==
    /\ pc[g] = "SetActive_GetUser"
    /\ LET user == GetUser(users, loc[g].userID) IN
       IF user = Nil
       THEN Return(g, Panic, {})
       ELSE /\ Goto(g, "SetActive_UpdateUser")
            /\ loc' = [loc EXCEPT ![g].user =
                            { [u EXCEPT !.is_active = loc[g].isActive] : u \in user }]
    /\ Track(g)
    /\ UNCHANGED <<teams, users, prs, reviewers>>

\* lines 91-95: UpdateUser(user), and the result
SetActive_UpdateUserUnassigns(g) ==
    /\ pc[g] = "SetActive_UpdateUser"
    /\ users' = UpdateUser(users, CHOOSE u \in loc[g].user : TRUE)
    /\ reviewers' = IF loc[g].isActive THEN reviewers
                    ELSE { e \in reviewers : e[2] # loc[g].userID }
    /\ Return(g, Ok, {})
    /\ Track(g)
    /\ UNCHANGED <<teams, prs>>
SetActive_UpdateUser(g) ==
    /\ pc[g] = "SetActive_UpdateUser"
    /\ users' = UpdateUser(users, CHOOSE u \in loc[g].user : TRUE)
    /\ Return(g, Ok, {})
    /\ Track(g)
    /\ UNCHANGED <<teams, prs, reviewers>>

\* ------------------------------------------------------------ PostPullRequestCreate
\* the locals of Service.CreatePR: its arguments, author.TeamName, the
\* reviewers it selected and those it has still to assign
CreateLocals(prID, prName, authorID) ==
    [op |-> "CreatePR", prID |-> prID, prName |-> prName, authorID |-> authorID,
     teamName |-> Nil, chosen |-> {}, pending |-> {}, err |-> Ok, revs |-> {}]

\* Handler.PostPullRequestCreate, lines 343-346: Bind
PostPullRequestCreate(g, req) ==
    /\ pc[g] = "idle"
    /\ IF req.valid
       THEN /\ Goto(g, "Create_GetPR")
            /\ loc' = [loc EXCEPT ![g] = CreateLocals(req.pull_request_id,
                                            req.pull_request_name, req.author_id)]
       ELSE /\ Goto(g, "return")
            /\ loc' = [loc EXCEPT ![g] = BindLocals("CreatePR")]
    /\ Track(g)
    /\ UNCHANGED <<teams, users, prs, reviewers>>

\* Service.CreatePR, lines 99-105: GetPR, the existence check
Create_GetPR(g) ==
    /\ pc[g] = "Create_GetPR"
    /\ IF GetPR(prs, loc[g].prID) # Nil
       THEN Return(g, ErrPRExists, {})
       ELSE Goto(g, "Create_GetUser") /\ UNCHANGED loc
    /\ Track(g)
    /\ UNCHANGED <<teams, users, prs, reviewers>>

\* lines 107-113: GetUser(authorID), the nil check
Create_GetUser(g) ==
    /\ pc[g] = "Create_GetUser"
    /\ LET author == GetUser(users, loc[g].authorID) IN
       IF author = Nil
       THEN Return(g, ErrNotFound, {})
       ELSE /\ Goto(g, "Create_GetActiveTeamMembers")
            /\ loc' = [loc EXCEPT ![g].teamName = { a.team_name : a \in author }]
    /\ Track(g)
    /\ UNCHANGED <<teams, users, prs, reviewers>>

\* lines 115-129: GetActiveTeamMembers, the selection
Create_GetActiveTeamMembers(g) ==
    /\ pc[g] = "Create_GetActiveTeamMembers"
    /\ LET teamName == CHOOSE t \in loc[g].teamName : TRUE
           activeMembers == GetActiveTeamMembers(users, teamName, loc[g].authorID)
       IN \E chosen \in SelectReviewers(activeMembers) :
            /\ Goto(g, "Create_StoreCreatePR")
            /\ loc' = [loc EXCEPT ![g].chosen = chosen, ![g].pending = chosen]
    /\ Track(g)
    /\ UNCHANGED <<teams, users, prs, reviewers>>

\* lines 131-141: store.CreatePR; the error of a refused insert is returned.
\* With no reviewer selected the service returns (lines 149-152).
Create_StoreCreatePR(g) ==
    /\ pc[g] = "Create_StoreCreatePR"
    /\ IF StoreCreatePRConflicts(prs, loc[g].prID)
       THEN /\ Return(g, ErrStore, {})
            /\ UNCHANGED prs
       ELSE /\ prs' = StoreCreatePR(prs,
                        [pull_request_id |-> loc[g].prID, name |-> loc[g].prName,
                         author_id |-> loc[g].authorID, status |-> PRStatusOpen,
                         merged_at |-> Nil])
            /\ IF loc[g].pending = {}
               THEN Return(g, Ok, loc[g].chosen)
               ELSE Goto(g, "Create_AssignReviewer") /\ UNCHANGED loc
    /\ Track(g)
    /\ UNCHANGED <<teams, users, reviewers>>

\* lines 143-152: one turn of the AssignReviewer loop (the reviewers come in
\* the order of the shuffle); after the last one, the result
Create_AssignReviewer(g) ==
    /\ pc[g] = "Create_AssignReviewer"
    /\ \E reviewer \in loc[g].pending :
        IF AssignReviewerConflicts(reviewers, loc[g].prID, reviewer)
        THEN /\ Return(g, ErrStore, {})
             /\ UNCHANGED reviewers
        ELSE /\ reviewers' = AssignReviewer(reviewers, loc[g].prID, reviewer)
             /\ IF loc[g].pending = {reviewer}
                THEN /\ Goto(g, "return")
                     /\ loc' = [loc EXCEPT ![g].pending = {},
                                           ![g].revs = loc[g].chosen]
                ELSE /\ UNCHANGED pc
                     /\ loc' = [loc EXCEPT ![g].pending = @ \ {reviewer}]
    /\ Track(g)
    /\ UNCHANGED <<teams, users, prs>>

\* ------------------------------------------------------------ PostPullRequestMerge
\* the locals of Service.MergePR and Service.ReassignReviewer: the arguments,
\* then the variables as the code assigns them (pr, currentReviewers,
\* oldReviewer.TeamName, newReviewer)
Locals(op, prID, oldUserID) ==
    [op |-> op, prID |-> prID, oldUserID |-> oldUserID,
     pr |-> Nil, currentReviewers |-> {}, teamName |-> Nil, newReviewer |-> Nil,
     err |-> Ok, revs |-> {}]

\* Handler.PostPullRequestMerge, lines 359-362: Bind
PostPullRequestMerge(g, req) ==
    /\ pc[g] = "idle"
    /\ IF req.valid
       THEN /\ Goto(g, "Merge_GetPR")
            /\ loc' = [loc EXCEPT ![g] = Locals("MergePR", req.pull_request_id, 0)]
       ELSE /\ Goto(g, "return")
            /\ loc' = [loc EXCEPT ![g] = BindLocals("MergePR")]
    /\ Track(g)
    /\ UNCHANGED <<teams, users, prs, reviewers>>

\* Service.MergePR, lines 156-177: GetPR, the nil check, the status check, and
\* on an OPEN pull request pr.Status and pr.MergedAt set in memory; now is
\* what time.Now() returns at line 175
Merge_GetPR(g, now) ==
    /\ pc[g] = "Merge_GetPR"
    /\ LET found == GetPR(prs, loc[g].prID) IN
       IF found = Nil
       THEN Return(g, ErrNotFound, {})
       ELSE IF (CHOOSE x \in found : TRUE).status = PRStatusMerged
       THEN /\ Goto(g, "Merge_GetPRReviewers")
            /\ loc' = [loc EXCEPT ![g].pr = found]
       ELSE /\ Goto(g, "Merge_UpdatePR")
            /\ loc' = [loc EXCEPT ![g].pr =
                        { [x EXCEPT !.status = PRStatusMerged,
                                    !.merged_at = Some(now)] : x \in found }]
    /\ Track(g)
    /\ UNCHANGED <<teams, users, prs, reviewers>>

\* lines 179-181: UpdatePR
Merge_UpdatePR(g) ==
    /\ pc[g] = "Merge_UpdatePR"
    /\ prs' = UpdatePR(prs, CHOOSE x \in loc[g].pr : TRUE)
    /\ Goto(g, "Merge_GetPRReviewers")
    /\ Track(g)
    /\ UNCHANGED <<teams, users, reviewers, loc>>

\* lines 165-172 and 183-191: GetPRReviewers, and the result
Merge_GetPRReviewers(g) ==
    /\ pc[g] = "Merge_GetPRReviewers"
    /\ Return(g, Ok, GetPRReviewers(users, reviewers, loc[g].prID))
    /\ Track(g)
    /\ UNCHANGED <<teams, users, prs, reviewers>>

\* ------------------------------------------------------------ PostPullRequestReassign
\* Handler.PostPullRequestReassign, lines 375-378: Bind
PostPullRequestReassign(g, req) ==
    /\ pc[g] = "idle"
    /\ IF req.valid
       THEN /\ Goto(g, "Reassign_GetPR")
            /\ loc' = [loc EXCEPT ![g] = Locals("ReassignReviewer",
                                            req.pull_request_id, req.old_user_id)]
       ELSE /\ Goto(g, "return")
            /\ loc' = [loc EXCEPT ![g] = BindLocals("ReassignReviewer")]
    /\ Track(g)
    /\ UNCHANGED <<teams, users, prs, reviewers>>

\* Service.ReassignReviewer, lines 195-205: GetPR, the nil check, the status
\* check
Reassign_GetPR(g) ==
    /\ pc[g] = "Reassign_GetPR"
    /\ LET found == GetPR(prs, loc[g].prID) IN
       IF found = Nil
       THEN Return(g, ErrNotFound, {})
       ELSE IF (CHOOSE x \in found : TRUE).status = PRStatusMerged
       THEN Return(g, ErrPRMerged, {})
       ELSE /\ Goto(g, "Reassign_GetPRReviewers")
            /\ loc' = [loc EXCEPT ![g].pr = found]
    /\ Track(g)
    /\ UNCHANGED <<teams, users, prs, reviewers>>

\* lines 207-221: GetPRReviewers, isAssigned
Reassign_GetPRReviewersSkipsAssigned(g) ==
    /\ pc[g] = "Reassign_GetPRReviewers"
    /\ Goto(g, "Reassign_GetUser")
    /\ loc' = [loc EXCEPT ![g].currentReviewers =
                    GetPRReviewers(users, reviewers, loc[g].prID)]
    /\ Track(g)
    /\ UNCHANGED <<teams, users, prs, reviewers>>
Reassign_GetPRReviewersChecksUserFirst(g) ==
    /\ pc[g] = "Reassign_GetPRReviewers"
    /\ LET currentReviewers == GetPRReviewers(users, reviewers, loc[g].prID) IN
       IF GetUser(users, loc[g].oldUserID) = Nil
       THEN Return(g, ErrNotFound, {})
       ELSE IF loc[g].oldUserID \notin currentReviewers
       THEN Return(g, ErrNotAssigned, {})
       ELSE /\ Goto(g, "Reassign_GetUser")
            /\ loc' = [loc EXCEPT ![g].currentReviewers = currentReviewers]
    /\ Track(g)
    /\ UNCHANGED <<teams, users, prs, reviewers>>
Reassign_GetPRReviewers(g) ==
    /\ pc[g] = "Reassign_GetPRReviewers"
    /\ LET currentReviewers == GetPRReviewers(users, reviewers, loc[g].prID) IN
       IF loc[g].oldUserID \notin currentReviewers
       THEN Return(g, ErrNotAssigned, {})
       ELSE /\ Goto(g, "Reassign_GetUser")
            /\ loc' = [loc EXCEPT ![g].currentReviewers = currentReviewers]
    /\ Track(g)
    /\ UNCHANGED <<teams, users, prs, reviewers>>

\* lines 223-229: GetUser(oldUserID), the nil check
Reassign_GetUser(g) ==
    /\ pc[g] = "Reassign_GetUser"
    /\ LET oldReviewer == GetUser(users, loc[g].oldUserID) IN
       IF oldReviewer = Nil
       THEN Return(g, ErrNotFound, {})
       ELSE /\ Goto(g, "Reassign_GetActiveTeamMembers")
            /\ loc' = [loc EXCEPT ![g].teamName =
                            { o.team_name : o \in oldReviewer }]
    /\ Track(g)
    /\ UNCHANGED <<teams, users, prs, reviewers>>

\* lines 231-252: GetActiveTeamMembers, the filter, NoCandidate, rand.Intn
Reassign_GetActiveTeamMembers(g) ==
    /\ pc[g] = "Reassign_GetActiveTeamMembers"
    /\ LET pr == CHOOSE x \in loc[g].pr : TRUE
           teamName == CHOOSE t \in loc[g].teamName : TRUE
           activeMembers == GetActiveTeamMembers(users, teamName, pr.author_id)
           availableMembers == AvailableMembers(activeMembers,
                                    loc[g].currentReviewers, loc[g].oldUserID)
       IN IF Cardinality(availableMembers) = 0
          THEN Return(g, ErrNoCandidate, {})
          ELSE \E newReviewer \in availableMembers :
                /\ Goto(g, "Reassign_RemoveReviewer")
                /\ loc' = [loc EXCEPT ![g].newReviewer = Some(newReviewer)]
    /\ Track(g)
    /\ UNCHANGED <<teams, users, prs, reviewers>>

\* lines 254-256: RemoveReviewer
Reassign_RemoveReviewer(g) ==
    /\ pc[g] = "Reassign_RemoveReviewer"
    /\ reviewers' = RemoveReviewer(reviewers, loc[g].prID, loc[g].oldUserID)
    /\ Goto(g, "Reassign_AssignReviewer")
    /\ Track(g)
    /\ UNCHANGED <<teams, users, prs, loc>>

\* lines 257-259: AssignReviewer; the error of a refused insert is returned
Reassign_AssignReviewer(g) ==
    /\ pc[g] = "Reassign_AssignReviewer"
    /\ LET newReviewer == CHOOSE n \in loc[g].newReviewer : TRUE IN
       IF AssignReviewerConflicts(reviewers, loc[g].prID, newReviewer)
       THEN /\ Return(g, ErrStore, {})
            /\ UNCHANGED reviewers
       ELSE /\ reviewers' = AssignReviewer(reviewers, loc[g].prID, newReviewer)
            /\ Goto(g, "Reassign_GetUpdatedReviewers")
            /\ UNCHANGED loc
    /\ Track(g)
    /\ UNCHANGED <<teams, users, prs>>

\* lines 261-271: GetPRReviewers again, and the result
Reassign_GetUpdatedReviewers(g) ==
    /\ pc[g] = "Reassign_GetUpdatedReviewers"
    /\ Return(g, Ok, GetPRReviewers(users, reviewers, loc[g].prID))
    /\ Track(g)
    /\ UNCHANGED <<teams, users, prs, reviewers>>

\* ------------------------------------------------------------ GetUsersGetReview
\* What `for _, pr := range prs` (line 281) declares depends on the go
\* directive the program is built with, which is not among the sources: one
\* variable pr for each iteration (go 1.22 and later), or one variable pr for
\* the whole loop (earlier).  Both builds are possible.
PerIteration == "per iteration"
PerLoop == "per loop"
LoopVariables == {PerIteration, PerLoop}

\* the locals of Service.GetUserAssignedPRs: its argument, prs (rows), result,
\* and the loop variable of the build that serves the request
ReviewLocals(userID, loopVariable) ==
    [op |-> "GetUserAssignedPRs", userID |-> userID, rows |-> << >>,
     result |-> << >>, loopVariable |-> loopVariable, err |-> Ok, revs |-> {}]

\* The rows of a query with no ORDER BY come in any order.
Orders(S) ==
    { rows \in [1..Cardinality(S) -> S] :
        \A i, j \in 1..Cardinality(S) : rows[i] = rows[j] => i = j }

\* result after iteration i has appended its entry, lines 286-289: the entry
\* holds &pr (line 287), a pointer to the range variable.  With one variable
\* for each iteration the entry keeps the row of its iteration.  With one
\* variable for the whole loop every entry appended so far points to that
\* variable, which iteration i has just set to row i.
RangeVariable(result, rows, i, assigned, loopVariable) ==
    LET entry == [pr |-> rows[i], revs |-> assigned]
    IN IF loopVariable = PerIteration
       THEN Append(result, entry)
       ELSE Append([j \in DOMAIN result |-> [result[j] EXCEPT !.pr = rows[i]]], entry)

\* Handler.GetUsersGetReview, line 462: the call of Service.GetUserAssignedPRs
GetUsersGetReview(g, userID) ==
    /\ pc[g] = "idle"
    /\ Goto(g, "Review_GetUserAssignedPRs")
    /\ \E loopVariable \in LoopVariables :
        loc' = [loc EXCEPT ![g] = ReviewLocals(userID, loopVariable)]
    /\ Track(g)
    /\ UNCHANGED <<teams, users, prs, reviewers>>

\* Service.GetUserAssignedPRs, lines 275-278 and 292: store.GetUserAssignedPRs;
\* with no row the loop is skipped and the (nil) result returned
Review_GetUserAssignedPRs(g) ==
    /\ pc[g] = "Review_GetUserAssignedPRs"
    /\ \E rows \in Orders({ PullRequest(p, prs[p]) :
                                p \in GetUserAssignedPRs(prs, reviewers, loc[g].userID) }) :
        /\ Goto(g, IF rows = << >> THEN "return" ELSE "Review_GetPRReviewers")
        /\ loc' = [loc EXCEPT ![g].rows = rows]
    /\ Track(g)
    /\ UNCHANGED <<teams, users, prs, reviewers>>

\* lines 281-292: one turn of the loop: GetPRReviewers of the row, the entry
\* appended; after the last row, the result
Review_GetPRReviewers(g) ==
    /\ pc[g] = "Review_GetPRReviewers"
    /\ LET rows == loc[g].rows
           i == Len(loc[g].result) + 1
           assigned == GetPRReviewers(users, reviewers, rows[i].pull_request_id)
       IN /\ Goto(g, IF i = Len(rows) THEN "return" ELSE "Review_GetPRReviewers")
          /\ loc' = [loc EXCEPT ![g].result =
                        RangeVariable(@, rows, i, assigned, loc[g].loopVariable)]
    /\ Track(g)
    /\ UNCHANGED <<teams, users, prs, reviewers>>

\* ------------------------------------------------------------ failing store calls
\* The call of the store the goroutine is about to make returns an error (a
\* lost connection, a cancelled context).  The service returns it, except
\* CreateOrUpdateTeam, which treats a failed GetTeam as no team found
\* (err == nil && existingTeam != nil, line 43) and goes on to CreateTeam.
StoreError(g) ==
    /\ pc[g] \notin {"idle", "return"}
    /\ IF pc[g] = "Team_GetTeam"
       THEN Goto(g, "Team_CreateTeam") /\ UNCHANGED loc
       ELSE Return(g, ErrStore, {})
    /\ Track(g)
    /\ UNCHANGED <<teams, users, prs, reviewers>>

\* ------------------------------------------------------------ responses
\* handleServiceError: the status and the error code of the response
handleServiceError(err) ==
    CASE err = ErrPRExists -> [status |-> 409, code |-> "PR_EXISTS"]
      [] err = ErrPRMerged -> [status |-> 409, code |-> "PR_MERGED"]
      [] err = ErrNotAssigned -> [status |-> 409, code |-> "NOT_ASSIGNED"]
      [] err = ErrNoCandidate -> [status |-> 409, code |-> "NO_CANDIDATE"]
      [] err = ErrNotFound -> [status |-> 404, code |-> "NOT_FOUND"]
      [] OTHER -> [status |-> 500, code |-> "INTERNAL_ERROR"]

\* a response without an error body
Success(status) == [status |-> status, code |-> ""]

\* What the handler of a request answers once its call has returned err: the
\* status and the error code of the response.
Answer(op, err) ==
    IF err = ErrBind
    THEN \* every handler with a body: ctx.JSON(400, createError("INVALID_REQUEST", ...))
         [status |-> 400, code |-> "INVALID_REQUEST"]
    ELSE IF err = Panic
    THEN \* middleware.Recover answers a panic of the handler with 500
         [status |-> 500, code |-> ""]
    ELSE CASE op = "CreateOrUpdateTeam" ->
                \* PostTeamAdd, lines 406-417 and 433
                IF err = Ok THEN Success(201)
                ELSE IF err = ErrTeamExists
                THEN [status |-> 400, code |-> "TEAM_EXISTS"]
                ELSE [status |-> 500, code |-> "INTERNAL_ERROR"]
           [] op \in {"GetTeam", "GetUserAssignedPRs", "SetUserActive"} ->
                \* GetTeamGet 440-442, GetUsersGetReview 463-465,
                \* PostUsersSetIsActive 490-492: any error is answered 404
                IF err = Ok THEN Success(200)
                ELSE [status |-> 404, code |-> "NOT_FOUND"]
           [] op = "CreatePR" ->
                IF err = Ok THEN Success(201) ELSE handleServiceError(err)
           [] op \in {"MergePR", "ReassignReviewer"} ->
                IF err = Ok THEN Success(200) ELSE handleServiceError(err)

\* ------------------------------------------------------------ Spec
\* Every endpoint, from the empty store, in two request goroutines.  The
\* requests are those of the end-to-end scenario of the documentation: team
\* backend (1) with A (1) and B (2) active and C (3) inactive, pull request pr1
\* (1) named fix (1) by A; and one more team (2), created with A in it.
ScenarioMembers ==
    [i \in 1..3 |-> [user_id |-> i, username |-> 1, is_active |-> (i # 3)]]

TeamAddRequests ==
    { [valid |-> TRUE, team_name |-> 1, members |-> ScenarioMembers],
      [valid |-> TRUE, team_name |-> 2,
       members |-> <<[user_id |-> 1, username |-> 1, is_active |-> TRUE]>>],
      Unbound }
CreateRequests ==
    { [valid |-> TRUE, pull_request_id |-> 1, pull_request_name |-> 1, author_id |-> 1],
      Unbound }
MergeRequests == { [valid |-> TRUE, pull_request_id |-> 1], Unbound }
ReassignRequests ==
    { [valid |-> TRUE, pull_request_id |-> 1, old_user_id |-> 2], Unbound }
SetIsActiveRequests ==
    { [valid |-> TRUE, user_id |-> 3, is_active |-> TRUE], Unbound }

\* one step of the handler and the service call of PostTeamAdd
TeamSteps(g) ==
    \/ Team_GetTeam(g)
    \/ Team_CreateTeam(g)
    \/ Team_CreateOrUpdateUser(g)
GetTeamSteps(g) ==
    \/ GetTeam_GetTeam(g)
    \/ GetTeam_GetTeamMembers(g)
SetActiveSteps(g) ==
    \/ SetActive_GetUser(g)
    \/ SetActive_UpdateUser(g)
CreateSteps(g) ==
    \/ Create_GetPR(g)
    \/ Create_GetUser(g)
    \/ Create_GetActiveTeamMembers(g)
    \/ Create_StoreCreatePR(g)
    \/ Create_AssignReviewer(g)
MergeSteps(g) ==
    \/ \E now \in Instants : Merge_GetPR(g, now)
    \/ Merge_UpdatePR(g)
    \/ Merge_GetPRReviewers(g)
ReassignSteps(g) ==
    \/ Reassign_GetPR(g)
    \/ Reassign_GetPRReviewers(g)
    \/ Reassign_GetUser(g)
    \/ Reassign_GetActiveTeamMembers(g)
    \/ Reassign_RemoveReviewer(g)
    \/ Reassign_AssignReviewer(g)
    \/ Reassign_GetUpdatedReviewers(g)
ReviewSteps(g) ==
    \/ Review_GetUserAssignedPRs(g)
    \/ Review_GetPRReviewers(g)

Next ==
    \E g \in Procs :
        \/ \E req \in TeamAddRequests : PostTeamAdd(g, req)
        \/ TeamSteps(g)
        \/ \E teamName \in {1} : GetTeamGet(g, teamName)
        \/ GetTeamSteps(g)
        \/ \E req \in SetIsActiveRequests : PostUsersSetIsActive(g, req)
        \/ SetActiveSteps(g)
        \/ \E req \in CreateRequests : PostPullRequestCreate(g, req)
        \/ CreateSteps(g)
        \/ \E req \in MergeRequests : PostPullRequestMerge(g, req)
        \/ MergeSteps(g)
        \/ \E req \in ReassignRequests : PostPullRequestReassign(g, req)
        \/ ReassignSteps(g)
        \/ \E userID \in {2} : GetUsersGetReview(g, userID)
        \/ ReviewSteps(g)
        \/ Finish(g)

Spec == Init /\ [][Next]_vars

\* ------------------------------------------------------------ SpecHttp
\* Spec with calls of the store that fail.
NextHttp ==
    \/ Next
    \/ \E g \in Procs : StoreError(g)

SpecHttp == Init /\ [][NextHttp]_vars

\* ------------------------------------------------------------ SpecCreate
\* PostPullRequestCreate and GetUsersGetReview in two request goroutines, on
\* every pull request id, name and author.
MemberIds(members) == { members[i].user_id : i \in DOMAIN members }

\* The store the goroutines start on: team 1 created with a member list of
\* the first MaxUsers - 1 users, or of all of them.
InitCreate ==
    /\ teams = CreateTeam({}, 1)
    /\ \E members \in { m \in MemberLists :
                            MemberIds(m) \in {1..(MaxUsers - 1), UserIds} } :
            users = UpsertMembers(<< >>, 1, members)
    /\ prs = << >>
    /\ reviewers = {}
    /\ pc = Idle
    /\ loc = NoLocals
    /\ serial = TRUE
    /\ pre = NoPre

CreateRequestsOfAll ==
    { [valid |-> TRUE, pull_request_id |-> prID, pull_request_name |-> prName,
       author_id |-> authorID] :
        prID \in PRIds, prName \in Names, authorID \in {1, MaxUsers} }

NextCreate ==
    \E g \in Procs :
        \/ \E req \in CreateRequestsOfAll : PostPullRequestCreate(g, req)
        \/ CreateSteps(g)
        \/ \E userID \in {2, MaxUsers} : GetUsersGetReview(g, userID)
        \/ ReviewSteps(g)
        \/ Finish(g)

SpecCreate == InitCreate /\ [][NextCreate]_vars

\* ------------------------------------------------------------ SpecConc
\* PostPullRequestCreate, PostPullRequestMerge and PostPullRequestReassign in
\* two request goroutines, on one pull request of user 1 and every reviewer.
\* The store the goroutines start on: team 1 created with a member list of
\* the first MaxUsers - 1 users (the last user is then unknown), or of all of
\* them.
InitConc ==
    /\ teams = CreateTeam({}, 1)
    /\ \E members \in { m \in MemberLists :
                            MemberIds(m) \in {1..(MaxUsers - 1), UserIds} } :
            users = UpsertMembers(<< >>, 1, members)
    /\ prs = << >>
    /\ reviewers = {}
    /\ pc = Idle
    /\ loc = NoLocals
    /\ serial = TRUE
    /\ pre = NoPre

ReassignRequestsOfAll ==
    { [valid |-> TRUE, pull_request_id |-> 1, old_user_id |-> oldUserID] :
        oldUserID \in UserIds }

NextConc ==
    \E g \in Procs :
        \/ \E req \in { r \in CreateRequests : r.valid } : PostPullRequestCreate(g, req)
        \/ CreateSteps(g)
        \/ \E req \in { r \in MergeRequests : r.valid } : PostPullRequestMerge(g, req)
        \/ MergeSteps(g)
        \/ \E req \in ReassignRequestsOfAll : PostPullRequestReassign(g, req)
        \/ ReassignSteps(g)
        \/ Finish(g)

SpecConc == InitConc /\ [][NextConc]_vars

\* ------------------------------------------------------------ SpecUpsert
\* PostUsersSetIsActive and PostTeamAdd in two request goroutines, on every
\* team name and every member list over the users of UpsertUserIds.
UpsertMemberLists == { m \in MemberLists : MemberIds(m) \subseteq UpsertUserIds }

\* The store the goroutines start on: team 1 created with a member list, then
\* possibly pull request 1 created by user 1.
InitUpsert ==
    /\ teams = CreateTeam({}, 1)
    /\ \E members \in UpsertMemberLists :
        LET created == UpsertMembers(<< >>, 1, members)
            pr == [pull_request_id |-> 1, name |-> 1, author_id |-> 1,
                   status |-> PRStatusOpen, merged_at |-> Nil]
        IN /\ users = created
           /\ \/ prs = << >> /\ reviewers = {}
              \/ /\ 1 \in DOMAIN created
                 /\ prs = StoreCreatePR(<< >>, pr)
                 /\ \E chosen \in SelectReviewers(GetActiveTeamMembers(created, 1, 1)) :
                        reviewers = AssignReviewers({}, 1, chosen)
    /\ pc = Idle
    /\ loc = NoLocals
    /\ serial = TRUE
    /\ pre = NoPre

NextUpsert ==
    \E g \in Procs :
        \/ \E userID \in UpsertUserIds, isActive \in BOOLEAN :
                PostUsersSetIsActive(g, [valid |-> TRUE, user_id |-> userID,
                                         is_active |-> isActive])
        \/ SetActiveSteps(g)
        \/ \E teamName \in TeamNames, members \in UpsertMemberLists :
                PostTeamAdd(g, [valid |-> TRUE, team_name |-> teamName,
                                members |-> members])
        \/ TeamSteps(g)
        \/ GetTeamSteps(g)
        \/ Finish(g)

SpecUpsert == InitUpsert /\ [][NextUpsert]_vars

\* ------------------------------------------------------------ claims
\* vocabulary of the claims
ReviewersOf(rs, prID) == { u \in UserIds : <<prID, u>> \in rs }
IsActive(us, u) == u \in DOMAIN us /\ us[u].is_active
TeamOf(us, u) == us[u].team_name
\* the active users on team t other than those in the set except
ActiveOthers(us, t, except) ==
    { u \in DOMAIN us : us[u].is_active /\ us[u].team_name = t /\ u \notin except }

\* Goroutine g takes this step.
Acts(g) == pc'[g] # pc[g] \/ loc'[g] # loc[g]
\* This step is the return of the call of goroutine g, and no request so far
\* has overlapped another: the call ran from the store pre'[g] to store'.
Returns(g) == pc[g] \notin {"idle", "return"} /\ pc'[g] = "return" /\ serial'
Completes(g, op) == Returns(g) /\ loc'[g].op = op
\* Goroutine g holds the result of a call that no request overlapped.
Returned(g, op) == pc[g] = "return" /\ serial /\ loc[g].op = op /\ loc[g].err # ErrBind

\* C1: when prID is unused and the author exists, a CreatePR that no other
\* request overlaps returns no error and persists an OPEN pull request of that
\* author with exactly min(2, n) reviewers, n the number of active users on
\* the author's team other than the author; every reviewer is active, on the
\* author's team and not the author.
C1_CreatePRAssigns ==
    [][\A g \in Procs :
        Completes(g, "CreatePR") =>
            LET usersBefore == pre'[g][2]
                prsBefore == pre'[g][3]
                reviewersBefore == pre'[g][4]
                prID == loc'[g].prID
                authorID == loc'[g].authorID
            IN (prID \notin DOMAIN prsBefore /\ authorID \in DOMAIN usersBefore)
               => LET pool == ActiveOthers(usersBefore, TeamOf(usersBefore, authorID),
                                           {authorID})
                      n == Cardinality(pool)
                      assigned == ReviewersOf(reviewers', prID)
                  IN /\ loc'[g].err = Ok
                     /\ prID \in DOMAIN prs'
                     /\ prs'[prID].status = PRStatusOpen
                     /\ prs'[prID].author_id = authorID
                     /\ Cardinality(assigned) = (IF n < 2 THEN n ELSE 2)
                     /\ assigned \subseteq pool
                     /\ loc'[g].revs = assigned
                     /\ \A p \in DOMAIN prsBefore :
                            ReviewersOf(reviewers', p) = ReviewersOf(reviewersBefore, p)
                     /\ users' = usersBefore
      ]_vars

\* C1 witness: CreatePR has assigned two reviewers out of a pool of three.
C1_Witness ==
    \E g \in Procs :
        /\ Returned(g, "CreatePR") /\ loc[g].err = Ok
        /\ Cardinality(loc[g].revs) = 2
        /\ Cardinality(ActiveOthers(users, TeamOf(users, loc[g].authorID),
                                    {loc[g].authorID})) = 3

\* C2: no pull request has its author among its reviewers, in any state of
\* any interleaving of the requests.
C2_AuthorNeverReviewer ==
    \A p \in DOMAIN prs : prs[p].author_id \notin ReviewersOf(reviewers, p)

\* C2 witness: a reassignment has succeeded on a pull request whose author is
\* active and on the team the replacement was drawn from.
C2_Witness ==
    \E g \in Procs :
        /\ pc[g] = "return" /\ loc[g].op = "ReassignReviewer" /\ loc[g].err = Ok
        /\ \E pr \in loc[g].pr, new \in loc[g].newReviewer :
            /\ IsActive(users, pr.author_id)
            /\ TeamOf(users, pr.author_id) = TeamOf(users, new)

\* C3 as stated: whenever a reviewer edge (pr, u) is added, u is active and on
\* the team of pr's author.
C3_Original ==
    [][\A p \in PRIds, u \in UserIds :
        (<<p, u>> \in reviewers' /\ <<p, u>> \notin reviewers)
        => /\ IsActive(users', u)
           /\ TeamOf(users', u) = TeamOf(users', prs'[p].author_id)
      ]_vars

\* C3 amended: whenever CreatePR or ReassignReviewer adds a reviewer edge
\* (pr, u), u is a user the call read as a candidate, and was active when it
\* read the candidates; CreatePR read them on the team of pr's author,
\* ReassignReviewer on the team of the reviewer it replaces.  When no request
\* overlaps another, u is still active and on that team at the moment the edge
\* is added.
C3_Amended ==
    [][\A g \in Procs : Acts(g) =>
        /\ (pc[g] = "Create_GetUser" /\ pc'[g] # "return")
            => loc'[g].teamName = Some(TeamOf(users, loc[g].authorID))
        /\ pc[g] = "Create_GetActiveTeamMembers"
            => \A u \in loc'[g].chosen :
                IsActive(users, u) /\ TeamOf(users, u) \in loc[g].teamName
        /\ (pc[g] = "Reassign_GetUser" /\ pc'[g] # "return")
            => loc'[g].teamName = Some(TeamOf(users, loc[g].oldUserID))
        /\ pc[g] = "Reassign_GetActiveTeamMembers"
            => \A u \in loc'[g].newReviewer :
                IsActive(users, u) /\ TeamOf(users, u) \in loc[g].teamName
        /\ \A p \in PRIds, u \in UserIds :
            (<<p, u>> \in reviewers' /\ <<p, u>> \notin reviewers)
            => /\ p = loc[g].prID
               /\ IF loc[g].op = "CreatePR"
                  THEN u \in loc[g].chosen
                  ELSE loc[g].op = "ReassignReviewer" /\ u \in loc[g].newReviewer
               /\ serial'
                    => /\ IsActive(users', u)
                       /\ IF loc[g].op = "CreatePR"
                          THEN TeamOf(users', u) = TeamOf(users', prs'[p].author_id)
                          ELSE TeamOf(users', u) = TeamOf(users', loc[g].oldUserID)
      ]_vars

\* C3 witness: a reassignment that no request overlapped has added a reviewer
\* who is not on the team of the pull request's author.
C3_Witness ==
    \E g \in Procs :
        /\ Returned(g, "ReassignReviewer") /\ loc[g].err = Ok
        /\ \E pr \in loc[g].pr, new \in loc[g].newReviewer :
            /\ <<pr.pull_request_id, new>> \in reviewers
            /\ TeamOf(users, new) # TeamOf(users, pr.author_id)

\* C4 as stated: once a pull request is MERGED in the store, no step adds or
\* removes a reviewer edge of it, whatever the interleaving of the requests.
C4_Original ==
    [][\A p \in DOMAIN prs :
        prs[p].status = PRStatusMerged
            => ReviewersOf(reviewers', p) = ReviewersOf(reviewers, p)
      ]_vars

\* C5: a successful ReassignReviewer(prID, old) that no other request overlaps
\* removes exactly the edge (prID, old) of an OPEN pull request and adds
\* exactly one edge (prID, new); new is active, on old's team, not the author,
\* not old and was not a reviewer of the pull request; nothing else in the
\* store changes and new is returned.
C5_ReassignReplacesOne ==
    [][\A g \in Procs :
        (Completes(g, "ReassignReviewer") /\ loc'[g].err = Ok) =>
            LET usersBefore == pre'[g][2]
                prsBefore == pre'[g][3]
                reviewersBefore == pre'[g][4]
                prID == loc'[g].prID
                old == loc'[g].oldUserID
            IN /\ prID \in DOMAIN prsBefore /\ prsBefore[prID].status = PRStatusOpen
               /\ <<prID, old>> \in reviewersBefore
               /\ \E new \in UserIds :
                    /\ reviewers' = (reviewersBefore \ {<<prID, old>>}) \cup {<<prID, new>>}
                    /\ <<prID, new>> \notin reviewersBefore
                    /\ IsActive(usersBefore, new)
                    /\ TeamOf(usersBefore, new) = TeamOf(usersBefore, old)
                    /\ new # prsBefore[prID].author_id
                    /\ new # old
                    /\ loc'[g].newReviewer = Some(new)
               /\ loc'[g].revs = ReviewersOf(reviewers', prID)
               /\ <<teams', users', prs'>> = <<pre'[g][1], usersBefore, prsBefore>>
      ]_vars

\* C5 witness: a reassignment has succeeded on a pull request with two
\* reviewers: the other reviewer stayed and the replacement is a third user.
C5_Witness ==
    \E g \in Procs :
        /\ Returned(g, "ReassignReviewer") /\ loc[g].err = Ok
        /\ Cardinality(loc[g].revs) = 2
        /\ loc[g].revs = ReviewersOf(reviewers, loc[g].prID)
        /\ loc[g].oldUserID \notin loc[g].revs

\* C6: a ReassignReviewer(prID, u) that no other request overlaps returns
\* PRMerged when the pull request is MERGED and NotAssigned when it is OPEN and
\* u is not among its reviewers; in both cases the store is the same after the
\* call as before.
C6_ReassignRefused ==
    [][\A g \in Procs :
        Completes(g, "ReassignReviewer") =>
            LET prsBefore == pre'[g][3]
                reviewersBefore == pre'[g][4]
                prID == loc'[g].prID
                u == loc'[g].oldUserID
            IN prID \in DOMAIN prsBefore
               => /\ (prsBefore[prID].status = PRStatusMerged)
                        => (loc'[g].err = ErrPRMerged /\ store' = pre'[g])
                  /\ (prsBefore[prID].status = PRStatusOpen
                            /\ <<prID, u>> \notin reviewersBefore)
                        => (loc'[g].err = ErrNotAssigned /\ store' = pre'[g])
      ]_vars

\* C6 witness: NotAssigned has been returned for an OPEN pull request that has
\* reviewers, to a user who is active and on the author's team.
C6_Witness ==
    \E g \in Procs :
        /\ Returned(g, "ReassignReviewer") /\ loc[g].err = ErrNotAssigned
        /\ prs[loc[g].prID].status = PRStatusOpen
        /\ ReviewersOf(reviewers, loc[g].prID) # {}
        /\ IsActive(users, loc[g].oldUserID)
        /\ loc[g].oldUserID # prs[loc[g].prID].author_id

\* C7: for an OPEN pull request and an assigned reviewer old, a
\* ReassignReviewer that no other request overlaps returns NoCandidate exactly
\* when nobody is active on old's team other than the author, old and the
\* current reviewers; on NoCandidate the store is unchanged (the edge of old
\* is still there).
C7_NoCandidateIff ==
    [][\A g \in Procs :
        Completes(g, "ReassignReviewer") =>
            LET usersBefore == pre'[g][2]
                prsBefore == pre'[g][3]
                reviewersBefore == pre'[g][4]
                prID == loc'[g].prID
                old == loc'[g].oldUserID
            IN (/\ prID \in DOMAIN prsBefore
                /\ prsBefore[prID].status = PRStatusOpen
                /\ <<prID, old>> \in reviewersBefore)
               => /\ (loc'[g].err = ErrNoCandidate)
                        <=> (ActiveOthers(usersBefore, TeamOf(usersBefore, old),
                                {prsBefore[prID].author_id, old}
                                    \cup ReviewersOf(reviewersBefore, prID)) = {})
                  /\ (loc'[g].err = ErrNoCandidate)
                        => (store' = pre'[g] /\ <<prID, old>> \in reviewers')
      ]_vars

\* C7 witness: NoCandidate has been returned for a pull request both of whose
\* reviewers are active: every eligible member is already assigned.
C7_Witness ==
    \E g \in Procs :
        /\ Returned(g, "ReassignReviewer") /\ loc[g].err = ErrNoCandidate
        /\ prs[loc[g].prID].status = PRStatusOpen
        /\ Cardinality(ReviewersOf(reviewers, loc[g].prID)) = 2
        /\ \A u \in ReviewersOf(reviewers, loc[g].prID) : IsActive(users, u)

\* C8 as stated: when a MergePR has returned a pull request as MERGED, the
\* next MergePR of it (no request overlapping another) returns no error and
\* the same status, merged_at and reviewer set as that answer, and writes
\* nothing.
C8_Original ==
    [][\A g, h \in Procs :
        (/\ pc[g] = "return" /\ loc[g].op = "MergePR" /\ loc[g].err = Ok
         /\ Completes(h, "MergePR")
         /\ loc'[h].prID = loc[g].prID)
        => /\ loc'[h].err = Ok
           /\ \E first \in loc[g].pr, second \in loc'[h].pr :
                /\ second.status = first.status
                /\ second.merged_at = first.merged_at
           /\ loc'[h].revs = loc[g].revs
           /\ store' = pre'[h]
      ]_vars

\* C9: in every interleaving of the requests a pull request is created OPEN,
\* the only change of status is OPEN to MERGED, and a MERGED pull request
\* stays MERGED (and stays in the store).
C9_StatusMonotonic ==
    [][/\ \A p \in DOMAIN prs' \ DOMAIN prs : prs'[p].status = PRStatusOpen
       /\ \A p \in DOMAIN prs :
            /\ p \in DOMAIN prs'
            /\ prs[p].status = PRStatusMerged => prs'[p].status = PRStatusMerged
            /\ prs'[p].status # prs[p].status
                => (prs[p].status = PRStatusOpen /\ prs'[p].status = PRStatusMerged)
      ]_vars

\* C9 witness: a merge of a pull request that was MERGED already has been
\* answered, and the pull request is MERGED.
C9_Witness ==
    \E g \in Procs :
        /\ pc[g] = "return" /\ loc[g].op = "MergePR" /\ loc[g].err = Ok
        /\ prs[loc[g].prID].status = PRStatusMerged
        /\ \E pr \in loc[g].pr : pr.merged_at = prs[loc[g].prID].merged_at

\* C10 as stated: SetUserActive on a user that does not exist returns NotFound
\* and leaves the store unchanged; on a user that exists it sets the active
\* flag and returns the updated user (no other request overlapping the call).
C10_Original ==
    [][\A g \in Procs :
        Completes(g, "SetUserActive") =>
            LET userID == loc'[g].userID IN
            IF userID \notin DOMAIN pre'[g][2]
            THEN loc'[g].err = ErrNotFound /\ store' = pre'[g]
            ELSE /\ loc'[g].err = Ok
                 /\ users'[userID].is_active = loc'[g].isActive
                 /\ loc'[g].user = Some(User(userID, users'[userID]))
      ]_vars

\* C11 as stated: when two CreatePR calls with the same id both pass the
\* existence check, the pull request exists once and the call whose insert is
\* refused is answered with a conflict (409), not with 500 INTERNAL_ERROR.
C11_Original ==
    \A g \in Procs :
        (pc[g] = "return" /\ loc[g].op = "CreatePR"
            /\ loc[g].err \notin {Ok, ErrNotFound})
        => /\ loc[g].prID \in DOMAIN prs
           /\ Answer(loc[g].op, loc[g].err).status = 409

\* C12 as stated: an operation with more than one store write either commits
\* all its writes and returns success, or returns an error with none of its
\* writes persisted: when CreateOrUpdateTeam, CreatePR or ReassignReviewer
\* returns an error (no other request overlapping the call) the store is as
\* it was before the call.
C12_Original ==
    [][\A g \in Procs :
        (/\ Returns(g)
         /\ loc'[g].op \in {"CreateOrUpdateTeam", "CreatePR", "ReassignReviewer"}
         /\ loc'[g].err # Ok
         /\ loc'[g].op = "CreateOrUpdateTeam" => loc'[g].team = Nil)
        => store' = pre'[g]
      ]_vars

\* C13: a CreateOrUpdateTeam on a name that exists, overlapped by no other
\* request, returns TeamExists and leaves the store as it was (the team row
\* and every user's username, active flag and team), whatever members the
\* call supplies.
C13_TeamExistsNoChange ==
    [][\A g \in Procs :
        (Completes(g, "CreateOrUpdateTeam") /\ loc'[g].teamName \in pre'[g][1])
        => /\ loc'[g].err = ErrTeamExists
           /\ loc'[g].team = Nil
           /\ store' = pre'[g]
      ]_vars

\* C13 witness: TeamExists has been returned to a request with two members,
\* one of them on another team, while there is a pull request.
C13_Witness ==
    \E g \in Procs :
        /\ Returned(g, "CreateOrUpdateTeam") /\ loc[g].err = ErrTeamExists
        /\ Len(loc[g].members) = 2
        /\ \E i \in 1..2 :
            /\ loc[g].members[i].user_id \in DOMAIN users
            /\ TeamOf(users, loc[g].members[i].user_id) # loc[g].teamName
        /\ DOMAIN prs # {}

\* C14: no step of SetUserActive, in any interleaving, changes a reviewer edge
\* or a pull request: every pull request has the same record and the same
\* reviewers (as rows and as GetPRReviewers lists them) after the step as
\* before it.
C14_SetUserActiveFrame ==
    [][\A g \in Procs :
        (Acts(g) /\ loc'[g].op = "SetUserActive")
        => /\ prs' = prs
           /\ reviewers' = reviewers
           /\ \A p \in DOMAIN prs :
                GetPRReviewers(users', reviewers', p) = GetPRReviewers(users, reviewers, p)
      ]_vars

\* C14 witness: a user who reviews an OPEN pull request has been set inactive
\* and is still its reviewer.
C14_Witness ==
    \E g \in Procs :
        /\ Returned(g, "SetUserActive") /\ loc[g].err = Ok
        /\ ~loc[g].isActive
        /\ ~IsActive(users, loc[g].userID)
        /\ \E p \in DOMAIN prs :
            /\ prs[p].status = PRStatusOpen
            /\ <<p, loc[g].userID>> \in reviewers

\* the stores of the scenario of C15
ScenarioUsers(activeC) ==
    [u \in 1..3 |-> [username |-> 1, is_active |-> (u # 3 \/ activeC), team_name |-> 1]]
ScenarioPRs ==
    [p \in {1} |-> [name |-> 1, author_id |-> 1, status |-> PRStatusOpen,
                     merged_at |-> Nil]]

\* C15: from the empty store, creating team backend with A and B active and C
\* inactive, then CreatePR(pr1, fix, A), ReassignReviewer(pr1, B),
\* SetUserActive(C, true), ReassignReviewer(pr1, B), one after the other,
\* gives, whatever the random choices: pr1 with reviewers exactly {B};
\* NoCandidate with the reviewers still {B}; then success with C returned and
\* the reviewers exactly {C}.
C15_Scenario ==
    [][\A g \in Procs : Returns(g) =>
       LET l == loc'[g] IN
       /\ (pre'[g] = <<{}, << >>, << >>, {}>> /\ l.op = "CreateOrUpdateTeam"
                /\ l.teamName = 1 /\ l.members = ScenarioMembers)
            => /\ l.err = Ok
               /\ store' = <<{1}, ScenarioUsers(FALSE), << >>, {}>>
       /\ (pre'[g] = <<{1}, ScenarioUsers(FALSE), << >>, {}>> /\ l.op = "CreatePR"
                /\ l.prID = 1 /\ l.prName = 1 /\ l.authorID = 1)
            => /\ l.err = Ok /\ l.revs = {2}
               /\ store' = <<{1}, ScenarioUsers(FALSE), ScenarioPRs, {<<1, 2>>}>>
       /\ (pre'[g] = <<{1}, ScenarioUsers(FALSE), ScenarioPRs, {<<1, 2>>}>>
                /\ l.op = "ReassignReviewer" /\ l.prID = 1 /\ l.oldUserID = 2)
            => /\ l.err = ErrNoCandidate
               /\ store' = pre'[g]
       /\ (pre'[g] = <<{1}, ScenarioUsers(FALSE), ScenarioPRs, {<<1, 2>>}>>
                /\ l.op = "SetUserActive" /\ l.userID = 3 /\ l.isActive)
            => /\ l.err = Ok
               /\ store' = <<{1}, ScenarioUsers(TRUE), ScenarioPRs, {<<1, 2>>}>>
       /\ (pre'[g] = <<{1}, ScenarioUsers(TRUE), ScenarioPRs, {<<1, 2>>}>>
                /\ l.op = "ReassignReviewer" /\ l.prID = 1 /\ l.oldUserID = 2)
            => /\ l.err = Ok /\ l.newReviewer = Some(3) /\ l.revs = {3}
               /\ store' = <<{1}, ScenarioUsers(TRUE), ScenarioPRs, {<<1, 3>>}>>
      ]_vars

\* C15 witness: the store at the end of the scenario, the second reassignment
\* just returned with C.
C15_Witness ==
    \E g \in Procs :
        /\ store = <<{1}, ScenarioUsers(TRUE), ScenarioPRs, {<<1, 3>>}>>
        /\ pre[g] = <<{1}, ScenarioUsers(TRUE), ScenarioPRs, {<<1, 2>>}>>
        /\ Returned(g, "ReassignReviewer")
        /\ loc[g].err = Ok /\ loc[g].newReviewer = Some(3)

C17_Original ==
    \A g \in Procs : pc[g] = "return" =>
        LET err == loc[g].err
            answer == Answer(loc[g].op, err)
        IN /\ err = ErrTeamExists => (answer.status = 409 /\ answer.code = "TEAM_EXISTS")
           /\ err = ErrPRExists => (answer.status = 409 /\ answer.code = "PR_EXISTS")
           /\ err = ErrPRMerged => (answer.status = 409 /\ answer.code = "PR_MERGED")
           /\ err = ErrNotAssigned => (answer.status = 409 /\ answer.code = "NOT_ASSIGNED")
           /\ err = ErrNoCandidate => (answer.status = 409 /\ answer.code = "NO_CANDIDATE")
           /\ err = ErrNotFound => (answer.status = 404 /\ answer.code = "NOT_FOUND")
           /\ answer.status = 400 => err = ErrBind

\* C18 as stated: at every endpoint the error of a failed store call is
\* answered 500 INTERNAL_ERROR.
C18_Original ==
    \A g \in Procs : (pc[g] = "return" /\ loc[g].err = ErrStore) =>
        LET answer == Answer(loc[g].op, loc[g].err)
        IN answer.status = 500 /\ answer.code = "INTERNAL_ERROR"

\* C19: a ReassignReviewer that no other request overlaps reports the first
\* failure condition that holds, in this order: pull request absent ->
\* NotFound; MERGED -> PRMerged; oldUserID not a reviewer of it ->
\* NotAssigned; old user absent -> NotFound; empty pool -> NoCandidate;
\* otherwise it succeeds.  So a MERGED pull request with an unassigned
\* oldUserID gives PRMerged, and an OPEN one with an oldUserID that is no
\* known user gives NotAssigned.
C19_FailureOrder ==
    [][\A g \in Procs :
        Completes(g, "ReassignReviewer") =>
            LET usersBefore == pre'[g][2]
                prsBefore == pre'[g][3]
                reviewersBefore == pre'[g][4]
                prID == loc'[g].prID
                old == loc'[g].oldUserID
            IN loc'[g].err =
                IF prID \notin DOMAIN prsBefore THEN ErrNotFound
                ELSE IF prsBefore[prID].status = PRStatusMerged THEN ErrPRMerged
                ELSE IF <<prID, old>> \notin reviewersBefore THEN ErrNotAssigned
                ELSE IF old \notin DOMAIN usersBefore THEN ErrNotFound
                ELSE IF ActiveOthers(usersBefore, TeamOf(usersBefore, old),
                            {prsBefore[prID].author_id, old}
                                \cup ReviewersOf(reviewersBefore, prID)) = {}
                     THEN ErrNoCandidate
                ELSE Ok
      ]_vars

\* C19 witness: NotAssigned has been returned for a pull request that was
\* OPEN, to an oldUserID that is no known user; and, the pull request since
\* MERGED, PRMerged has been returned to an oldUserID that is not a reviewer
\* of it.
C19_Witness ==
    \E g, h \in Procs :
        /\ Returned(h, "ReassignReviewer") /\ loc[h].err = ErrNotAssigned
        /\ loc[h].oldUserID \notin DOMAIN users
        /\ pre[h][3][loc[h].prID].status = PRStatusOpen
        /\ Returned(g, "ReassignReviewer") /\ loc[g].err = ErrPRMerged
        /\ prs[loc[g].prID].status = PRStatusMerged
        /\ <<loc[g].prID, loc[g].oldUserID>> \notin reviewers

\* C20: as long as no request overlaps another, no pull request has more than
\* 2 reviewers, and a successful ReassignReviewer leaves the number of
\* reviewers of every pull request as it was.
C20_AtMostTwoReviewers ==
    [][serial' =>
        /\ \A p \in DOMAIN prs' : Cardinality(ReviewersOf(reviewers', p)) <= 2
        /\ \A g \in Procs :
            (Completes(g, "ReassignReviewer") /\ loc'[g].err = Ok)
            => \A p \in DOMAIN prs' :
                Cardinality(ReviewersOf(reviewers', p))
                    = Cardinality(ReviewersOf(pre'[g][4], p))
      ]_vars

\* C20 witness: a reassignment has succeeded on a pull request that has two
\* reviewers, with four users active on one team.
C20_Witness ==
    \E g \in Procs :
        /\ Returned(g, "ReassignReviewer") /\ loc[g].err = Ok
        /\ Cardinality(ReviewersOf(reviewers, loc[g].prID)) = 2
        /\ Cardinality(DOMAIN users) = 4
        /\ \A u, v \in DOMAIN users :
            IsActive(users, u) /\ TeamOf(users, u) = TeamOf(users, v)

\* C21 as stated: when two ReassignReviewer calls on the same OPEN pull request
\* have both read the same reviewer set and both have returned, the pull
\* request has as many reviewers as the set they read: the count neither
\* grows nor shrinks.
C21_Original ==
    (/\ pc[1] = "return" /\ pc[2] = "return"
     /\ loc[1].op = "ReassignReviewer" /\ loc[2].op = "ReassignReviewer"
     /\ loc[1].prID = loc[2].prID
     /\ loc[1].currentReviewers # {}
     /\ loc[1].currentReviewers = loc[2].currentReviewers)
    => Cardinality(ReviewersOf(reviewers, loc[1].prID))
            = Cardinality(loc[1].currentReviewers)

\* C22 as stated: SetUserActive modifies only the active flag: its write
\* leaves the username and team of every user as the store holds them, also
\* when an upsert of CreateOrUpdateTeam has changed them since SetUserActive
\* read the user; no upsert is lost.
C22_Original ==
    [][\A g \in Procs :
        (pc[g] = "SetActive_UpdateUser" /\ Acts(g))
        => \A u \in DOMAIN users :
            /\ users'[u].team_name = users[u].team_name
            /\ users'[u].username = users[u].username
      ]_vars

=============================================================================
